---- MODULE Spec2Model ----
(***************************************************************************)
(* The RP chat log pipeline of src/omegga.plugin.ts: the per-room log      *)
(* files, the shared buffer of lines waiting for the webhook, the idle     *)
(* flush timer, the RP-chat member list and the room preferences.          *)
(*                                                                         *)
(* Every event handler of the plugin is an async function.  A handler in   *)
(* flight is a task: its pc names the await it is suspended at and its     *)
(* other fields are its local variables.  A step of the model runs a       *)
(* handler from one suspension to the next one that follows a write.       *)
(*                                                                         *)
(* store.get(key) answers with a copy of the value the store holds when    *)
(* the call is made (requests reach the store in order); the handler sees  *)
(* it when it resumes, and other handlers may have run in between.         *)
(* Consecutive store.get calls of one handler, with no write of that       *)
(* handler between them, are taken as one read of the store, made when the *)
(* first is called: what a handler does next is decided by the values it   *)
(* read, and its writes come in a later step, so that every other handler  *)
(* can run between a handler's reads and its writes.                       *)
(* store.set(key, v) is never awaited by the plugin; it takes effect in    *)
(* call order.  An await of a call that returns without I/O resumes in a   *)
(* microtask, before any other handler can run, and is part of the same    *)
(* step.  An exception in a handler ends that handler (a rejected promise  *)
(* nobody handles); what it throws is recorded in lastError.               *)
(***************************************************************************)
EXTENDS Integers, Sequences, FiniteSets, TLC

\* Bounds of the model: chat lines (chat and /me) in a run; rp commands and
\* disconnects in a run (stop() is allowed while fewer have been seen); lines
\* that may be long; handlers in flight at a time; second boundaries counted.
MaxLines == 2
MaxCmds == 2
MaxLong == 1
MaxTasks == 2
MaxClock == 1
\* config.rpChatLogCacheSize, the line-count cap of the buffer.
rpChatLogCacheSize == 2

Players == {"p1", "p2"}
\* The players whose roles include "GM" (cmdHandleRPOptions, clear).
GMs == {"p1"}
Rooms == {"fantasy", "space"}
\* Lengths of the on-disk form of a chat line's message; only the first
\* MaxLong lines of a run may be long.
MsgLens == {30, 1900}
MsgLensAt(k) == IF k <= MaxLong THEN MsgLens ELSE {30}
\* The character cap of one webhook message.
SizeCap == 1900
\* How a webhook request ends: with a response, of whatever status, or with
\* a connection error.
NetOutcomes == {"response", "error"}

VARIABLES
  config,                    \* uploadFiles, sendChatAsWellAsFiles, hasUrl
  playersInRPChat,           \* store: the member list, or null
  playerRoomPreferences,     \* store: the preference list
  messagesToSendViaWebhook,  \* store: the buffer
  currentFile,               \* store: currentFileFor<Room>RPChat
  prefsFile,                 \* disk: playerRoomPreferences.json
  uploadedLogList,           \* disk: uploadedLogList.json, the upload ledger
  files,                     \* disk: log file name -> content
  rpChatCacheFlushTimeout,   \* the stored timer handle
  timers,                    \* the timers setTimeout holds pending
  tasks,                     \* handlers in flight, in the order they started
  clock,                     \* wall clock, in seconds
  nextLine,                  \* chat lines seen so far
  lineBudget,                \* chat lines the run will see
  prefsWritable,             \* disk: playerRoomPreferences.json can be written
  nextCmd,                   \* rp commands and disconnects seen so far
  stopped,                   \* stop() has been called
  captured,                  \* history: lines pushed to the buffer
  batches,                   \* history: batches handed to sendCachedRPChatLogs
  uploads,                   \* history: file uploads requested
  lastError,                 \* history: the last exception a handler threw
  openAtStop                 \* history: the files that were open when stop() began

vars == <<config, lineBudget, prefsWritable, uploadedLogList, playersInRPChat, playerRoomPreferences,
          messagesToSendViaWebhook, currentFile, prefsFile, files,
          rpChatCacheFlushTimeout, timers, tasks, clock, nextLine, nextCmd, stopped,
          captured, batches, uploads, lastError, openAtStop>>

storeVars == <<playersInRPChat, playerRoomPreferences,
               messagesToSendViaWebhook, currentFile>>
diskVars == <<prefsFile, files>>
timerVars == <<rpChatCacheFlushTimeout, timers>>
histVars == <<captured, batches, uploads, lastError>>
envVars == <<config, lineBudget, prefsWritable, uploadedLogList, clock, nextLine, nextCmd, stopped, openAtStop>>

----------------------------------------------------------------------------
\* Values.

\* A null file name, and the name of a log file created for room at second
\* now: `${ROOM}-RPChatLog-${formatDateForFilename(currentDate)}.md`.
NoFile == [room |-> "none", ts |-> 0]
\* Variant of NewFileName: every new file is named as a Space file.
NewFileNameSpaceOnly(room, now) == [room |-> "space", ts |-> now]

NewFileName(room, now) == [room |-> room, ts |-> now]

\* Tokens of a log file's content: a line's on-disk form
\* `${dateTime}\n[${user}]: ${message}`, a newline, the trailer.
LineTok(id) == <<"line", id>>
NL == <<"nl", 0>>
Trailer == <<"end", 0>>

\* The member list as the store holds it: a list of ids, or null.
PlayersVal(ids) == [isNull |-> FALSE, ids |-> ids]
NullPlayers == [isNull |-> TRUE, ids |-> <<>>]

\* No timer handle (null); a timer's handle is the id of the line that armed it.
NoTimer == 0

SeqSet(s) == {s[k] : k \in 1 .. Len(s)}
\* players.includes(id)
Includes(ids, p) == p \in SeqSet(ids)
\* players.filter(e => e != id)
Without(ids, p) == SelectSeq(ids, LAMBDA e : e # p)

\* roomPrefs.find(e => e.playerId == player.id): is there such an entry, and
\* the room of the first one.
HasPref(prefs, p) == \E k \in 1 .. Len(prefs) : prefs[k].playerId = p
PrefRoom(prefs, p) ==
  prefs[CHOOSE k \in 1 .. Len(prefs) :
          /\ prefs[k].playerId = p
          /\ \A j \in 1 .. k - 1 : prefs[j].playerId # p].room

\* Variant of UpdatedPrefs: the new entry is pushed without filtering the
\* player's old one out.
UpdatedPrefsWithoutFilter(prefs, p, room) ==
  Append(prefs, [playerId |-> p, room |-> room])

\* Variant of UpdatedPrefs: the entry a player already has is left as it is.
UpdatedPrefsKeepingOld(prefs, p, room) ==
  IF ~HasPref(prefs, p)
    THEN Append(prefs, [playerId |-> p, room |-> room])
    ELSE prefs

\* The array updatePlayerRoomPref stores and writes, from the list it read.
UpdatedPrefs(prefs, p, room) ==
  IF ~HasPref(prefs, p)
    THEN Append(prefs, [playerId |-> p, room |-> room])
    ELSE Append(SelectSeq(prefs, LAMBDA e : e.playerId # p),
                [playerId |-> p, room |-> room])

\* The preferences file.  JSON.stringify(updatedArray) writes each entry as
\* {"playerId": <id>, "room": <number of the enum Rooms>}; JSON.parse reads
\* it back.  A file that does not exist loads as the empty list.
RoomNumber(room) == IF room = "fantasy" THEN 0 ELSE 1
RoomOfNumber(n) == IF n = 0 THEN "fantasy" ELSE "space"
NoPrefsFile == [exists |-> FALSE, text |-> <<>>]
Stringify(prefs) ==
  [exists |-> TRUE,
   text |-> [k \in 1 .. Len(prefs) |-> <<prefs[k].playerId, RoomNumber(prefs[k].room)>>]]
\* getStoredPlayerRoomPreferences()
Load(file) ==
  IF ~file.exists THEN <<>>
  ELSE [k \in 1 .. Len(file.text) |->
          [playerId |-> file.text[k][1], room |-> RoomOfNumber(file.text[k][2])]]

\* The buffer's form of a line: `(**${roomString}**) ${message}`.
RoomTagLen(room) == IF room = "fantasy" THEN 14 ELSE 12
Entry(id, room, len) == [id |-> id, room |-> room, len |-> len + RoomTagLen(room)]

RECURSIVE SumLen(_)
SumLen(msgs) == IF msgs = <<>> THEN 0 ELSE Head(msgs).len + SumLen(Tail(msgs))
\* updatedMessages.join("\n").length
JoinedLen(msgs) == IF msgs = <<>> THEN 0 ELSE SumLen(msgs) + (Len(msgs) - 1)

Ids(msgs) == [k \in 1 .. Len(msgs) |-> msgs[k].id]

\* fs.appendFileSync(name, toks) and fs.writeFileSync(name, toks).
AppendFile(fs, name, toks) ==
  IF name \in DOMAIN fs THEN [fs EXCEPT ![name] = @ \o toks]
  ELSE [n \in DOMAIN fs \cup {name} |-> IF n = name THEN toks ELSE fs[n]]
WriteFile(fs, name, toks) ==
  [n \in DOMAIN fs \cup {name} |-> IF n = name THEN toks ELSE fs[n]]

----------------------------------------------------------------------------
\* Tasks.

IdleTask ==
  [h |-> "none", pc |-> "idle", ret |-> "none", player |-> "none", opt |-> "none",
   line |-> 0, len |-> 0, room |-> "none",
   players |-> PlayersVal(<<>>), roomPrefs |-> <<>>,
   fileName |-> NoFile, spaceFileName |-> NoFile, fantasyFileName |-> NoFile,
   msgs |-> <<>>, updLen |-> 0, capHit |-> FALSE]

\* At most MaxTasks handlers are in flight at a time.
HasFree == Len(tasks) < MaxTasks
\* The handlers in flight once handler i has returned or thrown.
Drop(ts, i) == [k \in 1 .. Len(ts) - 1 |-> IF k < i THEN ts[k] ELSE ts[k + 1]]

TextRelay == ~config.uploadFiles \/ config.sendChatAsWellAsFiles

\* The plugin after construction and init(), before any event.
Constructed ==
  /\ config \in [uploadFiles : BOOLEAN, sendChatAsWellAsFiles : BOOLEAN,
                 hasUrl : BOOLEAN]
  \* sendChatAsWellAsFiles is read only when uploadFiles is on
  /\ config.sendChatAsWellAsFiles => config.uploadFiles
  /\ playersInRPChat = PlayersVal(<<>>)
  /\ playerRoomPreferences = <<>>
  /\ messagesToSendViaWebhook = <<>>
  /\ currentFile = [r \in Rooms |-> NoFile]
  /\ prefsFile = NoPrefsFile
  /\ uploadedLogList = <<>>
  /\ files = [n \in {} |-> <<>>]
  /\ rpChatCacheFlushTimeout = NoTimer
  /\ timers = {}
  /\ tasks = <<>>
  /\ clock = 0
  /\ nextLine = 0
  /\ nextCmd = 0
  /\ stopped = FALSE
  /\ captured = {}
  /\ batches = <<>>
  /\ uploads = <<>>
  /\ lastError = "none"
  /\ openAtStop = {}

Init ==
  /\ Constructed
  /\ lineBudget = MaxLines
  /\ prefsWritable = TRUE

----------------------------------------------------------------------------
\* Pieces of handlers, used by the steps below.

\* Variant of FlushReturnsAtOnce: a flush without the mode check of lines
\* 716-718.
FlushWithoutModeCheck == FALSE

\* flushCachedRPChatLogs returns before its first await (files-only mode).
FlushReturnsAtOnce == config.uploadFiles /\ ~config.sendChatAsWellAsFiles

\* flushCachedRPChatLogs up to `await this.store.get(...)`: the caller waits
\* for the buffer as it is now (msgsNow) and goes on at ret afterwards.
FlushCall(t, ret, msgsNow) ==
  [t EXCEPT !.pc = "f_get", !.ret = ret, !.msgs = msgsNow]

\* closeRPChatLogs up to the await of the second file name.
CloseCall(t) ==
  [IdleTask EXCEPT !.h = t.h, !.pc = "c_getF",
                   !.spaceFileName = currentFile["space"],
                   !.fantasyFileName = currentFile["fantasy"]]

\* clearTimeout(this.rpChatCacheFlushTimeout): the timers left pending.
ClearedTimers == {x \in timers : x.id # rpChatCacheFlushTimeout}

\* clearRPChatCacheFlushTimeout()
ClearTimeout ==
  /\ rpChatCacheFlushTimeout' = NoTimer
  /\ timers' = ClearedTimers

\* resetRPChatCacheFlushTimeout() by the handler of line id, when stamp lines
\* have been pushed to the buffer.
ResetTimeout(id, stamp) ==
  /\ rpChatCacheFlushTimeout' = id
  /\ timers' = ClearedTimers \cup {[id |-> id, stamp |-> stamp]}

\* The end of writeToChatLog: the line goes to the file whose name was read
\* at the start, or to a new file when that name was null.
WriteLine(i) ==
  LET t == tasks[i]
      new == NewFileName(t.room, clock) IN
  /\ files' = IF t.fileName # NoFile
                THEN AppendFile(files, t.fileName, <<LineTok(t.line), NL>>)
                ELSE WriteFile(files, new, <<LineTok(t.line)>>)
  /\ currentFile' = IF t.fileName # NoFile THEN currentFile
                    ELSE [currentFile EXCEPT ![t.room] = new]
  /\ tasks' = Drop(tasks, i)

\* An exception ends handler i.
Die(i, e) ==
  /\ tasks' = Drop(tasks, i)
  /\ lastError' = e

\* What the caller of flushCachedRPChatLogs does once the flush has returned;
\* msgsNow is the buffer at that point.
After(i, msgsNow) ==
  LET t == tasks[i] IN
  CASE t.ret = "w_after1" ->
         IF t.updLen >= rpChatLogCacheSize
           THEN /\ ClearTimeout
                /\ tasks' = [tasks EXCEPT ![i] = FlushCall(t, "w_after2", msgsNow)]
                /\ UNCHANGED <<files, currentFile>>
           ELSE /\ ResetTimeout(t.line, Cardinality(captured))
                /\ WriteLine(i)
    [] t.ret = "w_after2" ->
         /\ ClearTimeout
         /\ WriteLine(i)
    [] t.ret = "t_after" ->
         /\ rpChatCacheFlushTimeout' = NoTimer
         /\ tasks' = Drop(tasks, i)
         /\ UNCHANGED <<timers, files, currentFile>>
    [] t.ret = "stop_close" ->
         /\ tasks' = [tasks EXCEPT ![i] = CloseCall(t)]
         /\ UNCHANGED <<rpChatCacheFlushTimeout, timers, files, currentFile>>

\* The second half of closeRPChatLogs (the fantasy file), from files fs and
\* current names cur.
FantasyPart(i, fs, cur) ==
  LET t == tasks[i]
      fs2 == AppendFile(fs, t.fantasyFileName, <<Trailer>>) IN
  IF t.fantasyFileName = NoFile
    THEN /\ files' = fs
         /\ currentFile' = cur
         /\ tasks' = Drop(tasks, i)
         /\ UNCHANGED <<uploads, lastError>>
    ELSE /\ files' = fs2
         /\ currentFile' = [cur EXCEPT !["fantasy"] = NoFile]
         /\ IF ~config.uploadFiles
              THEN /\ tasks' = Drop(tasks, i)
                   /\ UNCHANGED <<uploads, lastError>>
              ELSE IF ~config.hasUrl
                THEN /\ Die(i, "close:TypeError")
                     /\ UNCHANGED uploads
                ELSE /\ uploads' = Append(uploads, [name |-> t.fantasyFileName,
                                                    content |-> fs2[t.fantasyFileName]])
                     /\ tasks' = [tasks EXCEPT ![i].pc = "c_upF"]
                     /\ UNCHANGED lastError

----------------------------------------------------------------------------
\* Events: a handler starts and runs to the await of what it reads.

\* The wall clock passes a second boundary.  The clock is read only when a
\* log file is created, to name it: a boundary counts when a handler is about
\* to create a file and the name of this second is taken.
Tick ==
  /\ clock < MaxClock
  /\ \E i \in DOMAIN tasks :
       /\ tasks[i].pc \in {"w_msgs", "f_get", "f_send"}
       /\ tasks[i].line # 0
       /\ tasks[i].fileName = NoFile
       /\ NewFileName(tasks[i].room, clock) \in DOMAIN files
  /\ clock' = clock + 1
  /\ UNCHANGED <<config, lineBudget, prefsWritable, uploadedLogList, nextLine, nextCmd, stopped, openAtStop, storeVars, diskVars,
                 timerVars, tasks, histVars>>

\* handleRPChatMessages(player, message) up to the await of the buffer in
\* writeToChatLog: the room is the author's preference in prefs, and the
\* room's current file name and the buffer are asked for.
LogCall(p, line, len, prefs) ==
  [IdleTask EXCEPT !.h = "log", !.pc = "w_msgs", !.player = p, !.line = line, !.len = len,
                   !.room = PrefRoom(prefs, p),
                   !.fileName = currentFile[PrefRoom(prefs, p)],
                   !.msgs = messagesToSendViaWebhook]

\* on("chat"): the line of a member is logged (a chat line of a player who
\* is not a member changes nothing and is left out).
ChatEvent(p, len) ==
  /\ ~stopped /\ HasFree /\ nextLine < lineBudget
  /\ playersInRPChat.isNull \/ Includes(playersInRPChat.ids, p)
  /\ nextLine' = nextLine + 1
  /\ IF playersInRPChat.isNull
       THEN /\ lastError' = "chat:TypeError"
            /\ UNCHANGED tasks
       ELSE IF ~HasPref(playerRoomPreferences, p)
         THEN /\ lastError' = "append:TypeError"
              /\ UNCHANGED tasks
         ELSE /\ tasks' = Append(tasks,
                             LogCall(p, nextLine + 1, len, playerRoomPreferences))
              /\ UNCHANGED lastError
  /\ UNCHANGED <<config, lineBudget, prefsWritable, uploadedLogList, clock, nextCmd, stopped, openAtStop, storeVars, diskVars,
                 timerVars, captured, batches, uploads>>

\* on("cmd:me"): a player without a preference gets Space first; then the
\* line is logged, member or not.
MeCmd(p, len) ==
  /\ ~stopped /\ HasFree /\ nextLine < lineBudget
  /\ nextLine' = nextLine + 1
  /\ tasks' = Append(tasks,
                 IF ~HasPref(playerRoomPreferences, p)
                   THEN [IdleTask EXCEPT !.h = "me", !.pc = "u_get", !.ret = "me_after",
                                         !.player = p, !.line = nextLine + 1,
                                         !.len = len, !.room = "space",
                                         !.roomPrefs = playerRoomPreferences]
                   ELSE LogCall(p, nextLine + 1, len, playerRoomPreferences))
  /\ UNCHANGED <<config, lineBudget, prefsWritable, uploadedLogList, clock, nextCmd, stopped, openAtStop, storeVars, diskVars,
                 timerVars, histVars>>

\* on("cmd:dmerp") with option rp: cmdHandleRPOptions(player, opt).  A join
\* of a member and a clear by a player who is no GM change nothing and are
\* left out.
RPCmd(p, opt) ==
  /\ ~stopped /\ HasFree /\ nextCmd < MaxCmds
  /\ opt = "join" => playersInRPChat.isNull \/ ~Includes(playersInRPChat.ids, p)
  /\ opt = "clear" => p \in GMs
  /\ nextCmd' = nextCmd + 1
  /\ IF opt \in {"join", "leave"} /\ playersInRPChat.isNull
       THEN /\ lastError' = IF opt = "join" THEN "join:TypeError"
                            ELSE "leave:TypeError"
            /\ UNCHANGED tasks
       ELSE /\ tasks' = Append(tasks,
                  CASE opt = "join" ->
                         [IdleTask EXCEPT
                            !.h = "rp",
                            !.pc = IF HasPref(playerRoomPreferences, p)
                                     THEN "j_set" ELSE "u_get",
                            !.ret = IF HasPref(playerRoomPreferences, p)
                                      THEN "none" ELSE "j_after",
                            !.player = p, !.room = "space",
                            !.players = PlayersVal(Append(playersInRPChat.ids, p)),
                            !.roomPrefs = playerRoomPreferences]
                    [] opt = "leave" ->
                         [IdleTask EXCEPT !.h = "rp", !.pc = "l_set", !.player = p,
                                          !.players = playersInRPChat]
                    [] opt = "clear" ->
                         [IdleTask EXCEPT !.h = "rp", !.pc = "cl_set", !.player = p]
                    [] opt \in Rooms ->
                         [IdleTask EXCEPT !.h = "rp", !.pc = "u_get", !.ret = "done",
                                          !.player = p, !.room = opt,
                                          !.roomPrefs = playerRoomPreferences])
            /\ UNCHANGED lastError
  /\ UNCHANGED <<config, lineBudget, prefsWritable, uploadedLogList, clock, nextLine, stopped, openAtStop, storeVars, diskVars,
                 timerVars, captured, batches, uploads>>

\* on("leave"): a player disconnects (the disconnect of a player who is not
\* a member changes nothing and is left out).
LeaveEvent(p) ==
  /\ ~stopped /\ HasFree /\ nextCmd < MaxCmds
  /\ playersInRPChat.isNull \/ Includes(playersInRPChat.ids, p)
  /\ nextCmd' = nextCmd + 1
  /\ IF playersInRPChat.isNull
       THEN /\ lastError' = "disconnect:TypeError"
            /\ UNCHANGED tasks
       ELSE /\ tasks' = Append(tasks,
                           [IdleTask EXCEPT !.h = "leave", !.pc = "lv_set", !.player = p,
                                            !.players = playersInRPChat])
            /\ UNCHANGED lastError
  /\ UNCHANGED <<config, lineBudget, prefsWritable, uploadedLogList, clock, nextLine, stopped, openAtStop, storeVars, diskVars,
                 timerVars, captured, batches, uploads>>

\* A pending timer expires: its callback calls flushCachedRPChatLogs and
\* sets the handle to null when the flush has returned.
TimerFire(tm) ==
  /\ tm \in timers
  /\ IF FlushReturnsAtOnce
       THEN /\ timers' = timers \ {tm}
            /\ rpChatCacheFlushTimeout' = NoTimer
            /\ UNCHANGED tasks
       ELSE /\ HasFree
            /\ timers' = timers \ {tm}
            /\ tasks' = Append(tasks,
                           FlushCall([IdleTask EXCEPT !.h = "timer"], "t_after",
                                     messagesToSendViaWebhook))
            /\ UNCHANGED rpChatCacheFlushTimeout
  /\ UNCHANGED <<envVars, storeVars, diskVars, histVars>>

\* stop(): clear the timer, then flush, then close.  openAtStop records the
\* files that are open at the call.
Stop ==
  /\ ~stopped /\ HasFree /\ nextCmd < MaxCmds
  /\ stopped' = TRUE
  /\ ClearTimeout
  /\ tasks' = Append(tasks,
                 IF FlushReturnsAtOnce
                   THEN CloseCall([IdleTask EXCEPT !.h = "stop"])
                   ELSE FlushCall([IdleTask EXCEPT !.h = "stop"], "stop_close",
                                  messagesToSendViaWebhook))
  /\ openAtStop' = {currentFile[r] : r \in Rooms} \ {NoFile}
  /\ UNCHANGED <<config, lineBudget, prefsWritable, uploadedLogList, clock, nextLine, nextCmd, storeVars, diskVars,
                 captured, batches, uploads, lastError>>

----------------------------------------------------------------------------
\* Steps: handler i resumes from the await its pc names.

\* writeToChatLog after the buffer arrived: push the line, then (with file
\* upload off) check the two thresholds, then write the file.
WMsgs(i) ==
  LET t == tasks[i]
      updated == Append(t.msgs, Entry(t.line, t.room, t.len))
      u == [t EXCEPT !.updLen = Len(updated),
                     !.capHit = JoinedLen(updated) >= SizeCap] IN
  /\ t.pc = "w_msgs"
  /\ messagesToSendViaWebhook' = updated
  /\ captured' = captured \cup {[id |-> t.line, room |-> t.room]}
  /\ IF ~config.uploadFiles
       THEN IF JoinedLen(updated) >= SizeCap
              THEN /\ tasks' = [tasks EXCEPT ![i] = FlushCall(u, "w_after1", updated)]
                   /\ UNCHANGED <<files, currentFile, timerVars>>
              ELSE IF Len(updated) >= rpChatLogCacheSize
                THEN /\ tasks' = [tasks EXCEPT ![i] = FlushCall(u, "w_after2", updated)]
                     /\ UNCHANGED <<files, currentFile, timerVars>>
                ELSE /\ ResetTimeout(t.line, Cardinality(captured) + 1)
                     /\ WriteLine(i)
       ELSE /\ WriteLine(i)
            /\ UNCHANGED timerVars
  /\ UNCHANGED <<envVars, playersInRPChat, playerRoomPreferences, prefsFile,
                 batches, uploads, lastError>>

\* Variant of NothingToSend: a flush without the check of lines 721-723.
AlwaysSomethingToSend(msgs) == FALSE

\* messagesToSend.length < 1
NothingToSend(msgs) == Len(msgs) < 1

\* flushCachedRPChatLogs after the buffer arrived: an empty buffer returns;
\* otherwise the batch goes to sendCachedRPChatLogs, which posts it when a
\* webhook URL is configured and returns at once when none is.
FGet(i) ==
  LET t == tasks[i] IN
  /\ t.pc = "f_get"
  /\ IF NothingToSend(t.msgs)
       THEN /\ After(i, messagesToSendViaWebhook)
            /\ UNCHANGED <<messagesToSendViaWebhook, batches>>
       ELSE /\ batches' = Append(batches, [lines |-> Ids(t.msgs),
                                           posted |-> config.hasUrl])
            /\ IF ~config.hasUrl
                 THEN /\ messagesToSendViaWebhook' = <<>>
                      /\ After(i, <<>>)
                 ELSE /\ tasks' = [tasks EXCEPT ![i] =
                                     [t EXCEPT !.pc = "f_send", !.msgs = <<>>]]
                      /\ UNCHANGED <<messagesToSendViaWebhook, timerVars,
                                     files, currentFile>>
  /\ UNCHANGED <<envVars, playersInRPChat, playerRoomPreferences, prefsFile,
                 captured, uploads, lastError>>

\* The webhook request of a flush ends: a response of any status lets the
\* flush empty the buffer; a connection error rejects up through the caller.
FSend(i, o) ==
  LET t == tasks[i] IN
  /\ t.pc = "f_send"
  /\ IF o = "error"
       THEN /\ Die(i, "flush:NetworkError")
            /\ UNCHANGED <<messagesToSendViaWebhook, timerVars, files, currentFile>>
       ELSE /\ messagesToSendViaWebhook' = <<>>
            /\ After(i, <<>>)
            /\ UNCHANGED lastError
  /\ UNCHANGED <<envVars, playersInRPChat, playerRoomPreferences, prefsFile,
                 captured, batches, uploads>>

\* rp join of a player who has a preference: the member list read at the
\* start, with the player pushed, is stored.
JSet(i) ==
  LET t == tasks[i] IN
  /\ t.pc = "j_set"
  /\ playersInRPChat' = t.players
  /\ tasks' = Drop(tasks, i)
  /\ UNCHANGED <<envVars, playerRoomPreferences, messagesToSendViaWebhook,
                 currentFile, diskVars, timerVars, histVars>>

\* rp leave: the member list read at the start, without the player, is
\* stored; closeRPChatLogs is called when it is empty.
LSet(i) ==
  LET t == tasks[i]
      left == Without(t.players.ids, t.player) IN
  /\ t.pc = "l_set"
  /\ playersInRPChat' = PlayersVal(left)
  /\ tasks' = IF Len(left) < 1 THEN [tasks EXCEPT ![i] = CloseCall(t)]
               ELSE Drop(tasks, i)
  /\ UNCHANGED <<envVars, playerRoomPreferences, messagesToSendViaWebhook,
                 currentFile, diskVars, timerVars, histVars>>

\* rp clear by a GM: the member list is set to null and closeRPChatLogs is
\* called.
ClSet(i) ==
  LET t == tasks[i] IN
  /\ t.pc = "cl_set"
  /\ playersInRPChat' = NullPlayers
  /\ tasks' = [tasks EXCEPT ![i] = CloseCall(t)]
  /\ UNCHANGED <<envVars, playerRoomPreferences, messagesToSendViaWebhook,
                 currentFile, diskVars, timerVars, histVars>>

\* on("leave"): the member list read at the start, without the player, is
\* stored; the file names are nulled when that list was empty.
LvSet(i) ==
  LET t == tasks[i] IN
  /\ t.pc = "lv_set"
  /\ playersInRPChat' = PlayersVal(Without(t.players.ids, t.player))
  /\ currentFile' = IF Len(t.players.ids) < 1 THEN [r \in Rooms |-> NoFile]
                    ELSE currentFile
  /\ tasks' = Drop(tasks, i)
  /\ UNCHANGED <<envVars, playerRoomPreferences, messagesToSendViaWebhook,
                 diskVars, timerVars, histVars>>

\* updatePlayerRoomPref after the preferences arrived: store and write the
\* updated list, then the caller goes on.  rp join then stores the member
\* list and reads playerPref.room of the undefined it found before the
\* update; /me logs its line.
UGet(i) ==
  LET t == tasks[i]
      upd == UpdatedPrefs(t.roomPrefs, t.player, t.room) IN
  /\ t.pc = "u_get"
  /\ playerRoomPreferences' = upd
  /\ IF ~prefsWritable
       THEN /\ Die(i, "pref:WriteError")
            /\ UNCHANGED <<prefsFile, playersInRPChat>>
       ELSE /\ prefsFile' = Stringify(upd)
            /\ CASE t.ret = "j_after" ->
                      /\ playersInRPChat' = t.players
                      /\ Die(i, "join:TypeError")
                 [] t.ret = "me_after" ->
                      /\ tasks' = [tasks EXCEPT ![i] =
                                      LogCall(t.player, t.line, t.len, upd)]
                      /\ UNCHANGED <<playersInRPChat, lastError>>
                 [] t.ret = "done" ->
                      /\ tasks' = Drop(tasks, i)
                      /\ UNCHANGED <<playersInRPChat, lastError>>
  /\ UNCHANGED <<envVars, messagesToSendViaWebhook, currentFile, files,
                 timerVars, captured, batches, uploads>>

\* closeRPChatLogs after the file names arrived: the space file gets the
\* trailer and is uploaded (file upload on); sendFileViaWebhook returns
\* undefined when no URL is configured and res.status then throws.
CGetF(i) ==
  LET t == tasks[i]
      fs1 == AppendFile(files, t.spaceFileName, <<Trailer>>)
      cur1 == [currentFile EXCEPT !["space"] = NoFile] IN
  /\ t.pc = "c_getF"
  /\ IF t.spaceFileName = NoFile
       THEN FantasyPart(i, files, currentFile)
       ELSE IF ~config.uploadFiles
         THEN FantasyPart(i, fs1, cur1)
         ELSE /\ files' = fs1
              /\ currentFile' = cur1
              /\ IF ~config.hasUrl
                   THEN /\ Die(i, "close:TypeError")
                        /\ UNCHANGED uploads
                   ELSE /\ uploads' = Append(uploads, [name |-> t.spaceFileName,
                                                       content |-> fs1[t.spaceFileName]])
                        /\ tasks' = [tasks EXCEPT ![i].pc = "c_upS"]
                        /\ UNCHANGED lastError
  /\ UNCHANGED <<envVars, playersInRPChat, playerRoomPreferences,
                 messagesToSendViaWebhook, prefsFile, timerVars, captured, batches>>

\* The upload of the space file ends.
CUpS(i, o) ==
  /\ tasks[i].pc = "c_upS"
  /\ IF o = "error"
       THEN /\ Die(i, "close:NetworkError")
            /\ UNCHANGED <<files, currentFile, uploads>>
       ELSE FantasyPart(i, files, currentFile)
  /\ UNCHANGED <<envVars, playersInRPChat, playerRoomPreferences,
                 messagesToSendViaWebhook, prefsFile, timerVars, captured, batches>>

\* The upload of the fantasy file ends.
CUpF(i, o) ==
  /\ tasks[i].pc = "c_upF"
  /\ IF o = "error"
       THEN Die(i, "close:NetworkError")
       ELSE /\ tasks' = Drop(tasks, i)
            /\ UNCHANGED lastError
  /\ UNCHANGED <<envVars, storeVars, diskVars, timerVars, captured, batches, uploads>>

----------------------------------------------------------------------------
Next ==
  \/ Tick
  \/ \E p \in Players, len \in MsgLensAt(nextLine + 1) : ChatEvent(p, len)
  \/ \E p \in Players, len \in MsgLensAt(nextLine + 1) : MeCmd(p, len)
  \/ \E p \in Players, opt \in {"join", "leave", "clear"} \cup Rooms : RPCmd(p, opt)
  \/ \E p \in Players : LeaveEvent(p)
  \/ \E tm \in timers : TimerFire(tm)
  \/ Stop
  \/ \E i \in DOMAIN tasks : WMsgs(i)
  \/ \E i \in DOMAIN tasks : FGet(i)
  \/ \E i \in DOMAIN tasks, o \in NetOutcomes : FSend(i, o)
  \/ \E i \in DOMAIN tasks : JSet(i)
  \/ \E i \in DOMAIN tasks : LSet(i)
  \/ \E i \in DOMAIN tasks : ClSet(i)
  \/ \E i \in DOMAIN tasks : LvSet(i)
  \/ \E i \in DOMAIN tasks : UGet(i)
  \/ \E i \in DOMAIN tasks : CGetF(i)
  \/ \E i \in DOMAIN tasks, o \in NetOutcomes : CUpS(i, o)
  \/ \E i \in DOMAIN tasks, o \in NetOutcomes : CUpF(i, o)

Spec == Init /\ [][Next]_vars

----------------------------------------------------------------------------
\* Lines appended one after another: text relay is on, each /me line arrives
\* when the handler of the line before it has ended, no line reaches the
\* size cap, no timer fires, and there is one line more than the count cap.
InitSeq ==
  /\ Constructed
  /\ TextRelay
  /\ lineBudget = rpChatLogCacheSize + 1
  /\ prefsWritable = TRUE

NextSeq ==
  \/ \E p \in Players, len \in {l \in MsgLens : l < SizeCap} :
       tasks = <<>> /\ MeCmd(p, len)
  \/ \E i \in DOMAIN tasks : UGet(i)
  \/ \E i \in DOMAIN tasks : WMsgs(i)
  \/ \E i \in DOMAIN tasks : FGet(i)
  \/ \E i \in DOMAIN tasks, o \in NetOutcomes : FSend(i, o)

SpecSeq == InitSeq /\ [][NextSeq]_vars

----------------------------------------------------------------------------
\* The plugin on a disk where playerRoomPreferences.json cannot be written:
\* fs.writeFileSync of updatePlayerRoomPref throws.
InitDisk ==
  /\ Constructed
  /\ lineBudget = MaxLines
  /\ prefsWritable = FALSE

SpecDisk == InitDisk /\ [][Next]_vars

----------------------------------------------------------------------------
\* What the properties below read off a state.

\* The ids of the lines in a file's content, and how many trailers it holds.
LinesOf(c) == {c[k][2] : k \in {j \in 1 .. Len(c) : c[j][1] = "line"}}
FileLines(fs, n) == IF n \in DOMAIN fs THEN LinesOf(fs[n]) ELSE {}
TrailerCount(fs, n) ==
  IF n \in DOMAIN fs THEN Cardinality({k \in 1 .. Len(fs[n]) : fs[n][k] = Trailer})
  ELSE 0
\* The lines handed to sendCachedRPChatLogs so far.
BatchedLines == UNION {SeqSet(batches[k].lines) : k \in 1 .. Len(batches)}
\* The handler of line id is in flight.
InFlight(id) == \E i \in DOMAIN tasks : tasks[i].line = id
\* A handler of kind h is in flight.
Running(h) == \E i \in DOMAIN tasks : tasks[i].h = h

\* C1: in every log file each line is separated from the next one, the
\* trailer occurs at most once and only as the last thing in the file, and
\* the file a room is writing to (its session is Open) holds no trailer.
C1_FileIsLinesThenTrailer ==
  \A n \in DOMAIN files :
    LET c == files[n] IN
    /\ \A k \in 1 .. Len(c) - 1 : c[k][1] = "line" => c[k + 1][1] # "line"
    /\ \A k \in 1 .. Len(c) : c[k] = Trailer => k = Len(c)
    /\ currentFile[n.room] = n => TrailerCount(files, n) = 0

\* C2: while text relay is on, no line is in two batches handed to the
\* delivery client, and every line pushed to the buffer is either still in
\* the buffer or in a batch.
C2_EveryLineInExactlyOneBatch ==
  TextRelay =>
    /\ \A a, b \in 1 .. Len(batches) :
         a # b => SeqSet(batches[a].lines) \cap SeqSet(batches[b].lines) = {}
    /\ \A c \in captured :
         c.id \in SeqSet(Ids(messagesToSendViaWebhook)) \cup BatchedLines

\* C3: when the handler of a captured line ends, the line has been written
\* to a log file of its room, whatever the outcome of the webhook requests.
C3_CapturedLineIsOnDisk ==
  [][\A c \in captured' :
       (InFlight(c.id) /\ ~\E j \in DOMAIN tasks' : tasks'[j].line = c.id) =>
         \E n \in DOMAIN files' : n.room = c.room /\ c.id \in FileLines(files', n)
    ]_vars

\* C4: a step that writes a line of a room whose session is Open appends it
\* to the room's current file and creates or rewrites no file; a step that
\* writes a line of a room whose session is Unopened creates one file and
\* records it as the room's current file.
C4_OpenOnFirstAppendOnly ==
  [][\A r \in Rooms :
       LET written == {n \in DOMAIN files' :
                         n.room = r /\ ~(FileLines(files', n) \subseteq FileLines(files, n))}
       IN written # {} =>
            IF currentFile[r] # NoFile
              THEN /\ written = {currentFile[r]}
                   /\ DOMAIN files' = DOMAIN files
                   /\ currentFile[r] \in DOMAIN files
                   /\ \E l \in 1 .. MaxLines :
                        files'[currentFile[r]] =
                          files[currentFile[r]] \o <<LineTok(l), NL>>
                   /\ currentFile'[r] = currentFile[r]
              ELSE /\ Cardinality(written) = 1
                   /\ written \cap DOMAIN files = {}
                   /\ currentFile'[r] \in written]_vars

\* C5: a step writes a trailer to a file only when that file is the current
\* file of its room (a close of an Unopened room writes nothing), no file
\* gets a second trailer, and no file is handed to the upload twice.
C5_CloseOfUnopenedIsNoOp ==
  [][/\ \A n \in DOMAIN files' :
          TrailerCount(files', n) > TrailerCount(files, n) =>
            currentFile[n.room] = n /\ TrailerCount(files', n) = 1
     /\ \A a, b \in 1 .. Len(uploads') : a # b => uploads'[a].name # uploads'[b].name
    ]_vars

\* The thresholds as the handler of a line saw them when it pushed the line:
\* the joined text has reached the size cap, or the line count the count cap.
ThresholdReached(t) == t.capHit \/ t.updLen >= rpChatLogCacheSize

\* C6: with file upload off, when the handler of a line that reached a
\* threshold completes (it writes the line to its file), the line has been
\* handed over in a batch and no idle-flush timer is pending.
C6_ThresholdFlushLeavesNoTimer ==
  [][\A i \in DOMAIN tasks :
       LET t == tasks[i] IN
       (/\ ~config.uploadFiles
        /\ t.pc \in {"f_get", "f_send"} /\ t.ret \in {"w_after1", "w_after2"}
        /\ ThresholdReached(t)
        /\ ~\E j \in DOMAIN tasks' : tasks'[j].line = t.line
        /\ \E n \in DOMAIN files' : t.line \in FileLines(files', n) \ FileLines(files, n))
       => /\ t.line \in UNION {SeqSet(batches'[k].lines) : k \in 1 .. Len(batches')}
          /\ rpChatCacheFlushTimeout' = NoTimer
          /\ timers' = {}
    ]_vars

\* C7: when a timer fires (its callback starts), no line has been pushed to
\* the buffer since the timer was armed.
C7_TimerFiresOnlyAfterIdleWindow ==
  [][\A tm \in timers :
       (/\ tm \notin timers'
        /\ Len(tasks') = Len(tasks) + 1
        /\ tasks'[Len(tasks')].h = "timer")
       => tm.stamp = Cardinality(captured)
    ]_vars

\* C8: a step in which the member list becomes empty (or null) while a room
\* is Open starts closeRPChatLogs.
C8_EmptyMemberListCloses ==
  [][(/\ ~playersInRPChat.isNull /\ playersInRPChat.ids # <<>>
      /\ playersInRPChat'.isNull \/ playersInRPChat'.ids = <<>>
      /\ \E r \in Rooms : currentFile[r] # NoFile)
     => \E j \in DOMAIN tasks' : tasks'[j].pc = "c_getF"
    ]_vars

\* C9: once the stop() handler has ended, every file that was open when
\* stop() began holds the trailer and is no room's current file.
C9_StopClosesOpenFiles ==
  (stopped /\ ~Running("stop")) =>
    \A n \in openAtStop :
      TrailerCount(files, n) >= 1 /\ currentFile[n.room] # n

\* C10: with no webhook URL configured no request is issued and
\* closeRPChatLogs does not fail.
C10_NoDestinationNoFailure ==
  ~config.hasUrl =>
    /\ uploads = <<>>
    /\ \A k \in 1 .. Len(batches) : ~batches[k].posted
    /\ lastError \notin {"flush:NetworkError", "close:NetworkError", "close:TypeError"}

\* Handler i is in closeRPChatLogs.
Closing(t) == t.pc \in {"c_getF", "c_upS", "c_upF"}

\* C11: when a call of closeRPChatLogs that found both rooms Open ends, by
\* return or by an exception of an upload, each of the two files it found
\* holds the trailer and is no longer its room's current file.
C11_RoomsCloseIndependently ==
  [][\A i \in DOMAIN tasks :
       LET t == tasks[i] IN
       (/\ Closing(t)
        /\ t.spaceFileName # NoFile /\ t.fantasyFileName # NoFile
        /\ tasks' = Drop(tasks, i))
       => \A n \in {t.spaceFileName, t.fantasyFileName} :
            /\ TrailerCount(files', n) >= 1
            /\ currentFile'[n.room] # n
    ]_vars

\* C12: in files-only mode (uploadFiles on, sendChatAsWellAsFiles off) every
\* step that writes a line to a log file leaves that line in the buffer it
\* stores, and no batch is ever handed to sendCachedRPChatLogs, whether by a
\* threshold, by the timer or by stop().
C12_FilesOnlyBuffersAndSendsNothing ==
  [][~TextRelay =>
       /\ batches' = <<>>
       /\ \A n \in DOMAIN files' :
            FileLines(files', n) \ FileLines(files, n)
              \subseteq SeqSet(Ids(messagesToSendViaWebhook'))
       /\ \A c \in captured' \ captured :
            c.id \in SeqSet(Ids(messagesToSendViaWebhook'))
    ]_vars

\* C12, its case: files-only mode, two lines are in the buffer and stop() has
\* run to its end.
C12_Witness ==
  /\ ~TextRelay
  /\ stopped /\ tasks = <<>>
  /\ Len(messagesToSendViaWebhook) >= 2
  /\ Cardinality(captured) >= 2

\* Handler i takes this step.
Stepped(i) ==
  \/ tasks' = Drop(tasks, i)
  \/ Len(tasks') = Len(tasks) /\ tasks'[i] # tasks[i]

\* C13: no batch of zero lines is ever handed to sendCachedRPChatLogs, and
\* the step of a flush that found the buffer empty changes neither the
\* stored buffer nor what has been handed over.
C13_EmptyBufferNeverFlushed ==
  [][/\ \A k \in 1 .. Len(batches') : Len(batches'[k].lines) >= 1
     /\ \A i \in DOMAIN tasks :
          (tasks[i].pc = "f_get" /\ tasks[i].msgs = <<>> /\ Stepped(i)) =>
            /\ messagesToSendViaWebhook' = messagesToSendViaWebhook
            /\ batches' = batches
            /\ uploads' = uploads
    ]_vars

\* C13, its case: with file upload off the second line reached the count cap
\* and its handler's flush handed both lines over as the only batch; the
\* flush of stop() has then found the buffer empty and stop() has ended.
C13_Witness ==
  /\ ~config.uploadFiles
  /\ stopped /\ tasks = <<>>
  /\ Len(batches) = 1 /\ Len(batches[1].lines) = 2
  /\ messagesToSendViaWebhook = <<>>
  /\ lastError = "none"

\* C14: with file upload on, once the close that handed a file to the upload
\* has ended, the file ends with the trailer and the upload ledger holds
\* exactly one entry for its name.
C14_OneLedgerEntryPerUploadedFile ==
  (config.uploadFiles /\ ~\E i \in DOMAIN tasks : Closing(tasks[i])) =>
    \A k \in 1 .. Len(uploads) :
      LET n == uploads[k].name IN
      /\ files[n][Len(files[n])] = Trailer
      /\ Cardinality({j \in 1 .. Len(uploadedLogList) :
                        uploadedLogList[j].logName = n}) = 1

\* C15: when updatePlayerRoomPref(p, r) completes, the preferences loaded
\* from the file hold room r for player p, whatever was set before.
C15_SetThenLoadYieldsLastRoom ==
  [][\A i \in DOMAIN tasks :
       (tasks[i].pc = "u_get" /\ Stepped(i)) =>
         /\ HasPref(Load(prefsFile'), tasks[i].player)
         /\ PrefRoom(Load(prefsFile'), tasks[i].player) = tasks[i].room
    ]_vars

\* C15, its case: p1 wrote line 1 in the Space room, its first preference,
\* then switched to Fantasy and wrote line 2 there; the file holds Fantasy as
\* p1's only entry.
C15_Witness ==
  /\ tasks = <<>>
  /\ Load(prefsFile) = <<[playerId |-> "p1", room |-> "fantasy"]>>
  /\ captured = {[id |-> 1, room |-> "space"], [id |-> 2, room |-> "fantasy"]}

\* No two entries of a preference list have the same player id.
OneEntryPerPlayer(prefs) ==
  \A a, b \in 1 .. Len(prefs) : a # b => prefs[a].playerId # prefs[b].playerId

\* C16: in every reachable state the stored preference list and the list
\* loaded from the preferences file hold at most one entry per player.
C16_OneEntryPerPlayer ==
  /\ OneEntryPerPlayer(playerRoomPreferences)
  /\ OneEntryPerPlayer(Load(prefsFile))

\* C16, its case: a line was written in the Fantasy room and a later one in
\* the Space room, two commands were given, and p1's entry, Space, is the only
\* one in memory and on disk.
C16_Witness ==
  /\ tasks = <<>>
  /\ nextCmd = 2
  /\ captured = {[id |-> 1, room |-> "fantasy"], [id |-> 2, room |-> "space"]}
  /\ playerRoomPreferences = <<[playerId |-> "p1", room |-> "space"]>>
  /\ Load(prefsFile) = playerRoomPreferences

\* The uploads issued for the file n.
UploadsOf(n) == {k \in 1 .. Len(uploads) : uploads[k].name = n}

\* C17: with file upload off nothing is ever uploaded; with file upload on and
\* a webhook URL configured every uploaded content ends with the trailer and a
\* file that has its trailer was uploaded exactly once.
C17_OneUploadPerClosedFile ==
  /\ ~config.uploadFiles => uploads = <<>>
  /\ (config.uploadFiles /\ config.hasUrl) =>
       /\ \A k \in 1 .. Len(uploads) :
            uploads[k].content[Len(uploads[k].content)] = Trailer
       /\ \A n \in DOMAIN files :
            TrailerCount(files, n) >= 1 => Cardinality(UploadsOf(n)) = 1

\* C18: when one line more than the count cap has been appended, one after
\* another, exactly one batch was handed over, it holds the first lines up to
\* the cap in append order, and the buffer holds exactly the last line.
C18_OneFlushOfFirstNLines ==
  (nextLine = rpChatLogCacheSize + 1 /\ tasks = <<>>) =>
    /\ Len(batches) = 1
    /\ batches[1].lines = [k \in 1 .. rpChatLogCacheSize |-> k]
    /\ Ids(messagesToSendViaWebhook) = <<rpChatLogCacheSize + 1>>

\* C19: with text relay on, before stop(), when no handler is in flight and no
\* handler has thrown, a non-empty buffer has an idle timer pending.
C19_BufferedLinesHaveTimerPending ==
  (TextRelay /\ ~stopped /\ tasks = <<>> /\ lastError = "none"
     /\ messagesToSendViaWebhook # <<>>) => timers # {}

\* C20: at most one idle-flush timer is pending, and a pending timer is the
\* one the stored handle refers to.
C20_OnePendingTimerHeldByHandle ==
  /\ Cardinality(timers) <= 1
  /\ \A tm \in timers : rpChatCacheFlushTimeout = tm.id

\* C21: once stop() has been called and its handler has ended, no idle-flush
\* timer is pending.
C21_NoTimerAfterStop ==
  (stopped /\ ~Running("stop")) => timers = {}

\* Content c is content b with something appended.
Extends(c, b) == Len(c) > Len(b) /\ SubSeq(c, 1, Len(b)) = b

\* C22: no step appends a line to a file that holds the trailer.
C22_NoLineAppendedAfterTrailer ==
  [][\A n \in DOMAIN files \cap DOMAIN files' :
       (TrailerCount(files, n) >= 1 /\ Extends(files'[n], files[n])) =>
         FileLines(files', n) = FileLines(files, n)]_vars

\* The files of room r that exist and hold no trailer.
LiveFiles(r) == {n \in DOMAIN files : n.room = r /\ TrailerCount(files, n) = 0}

\* C23: each room has at most one file without the trailer, and that file is
\* the room's recorded current file.
C23_OneLiveFilePerRoom ==
  \A r \in Rooms :
    /\ Cardinality(LiveFiles(r)) <= 1
    /\ LiveFiles(r) \subseteq {currentFile[r]}

\* C24: while the member list is empty (or null) no room has a current file.
C24_OpenOnlyWithMembers ==
  (playersInRPChat.isNull \/ playersInRPChat.ids = <<>>) =>
    \A r \in Rooms : currentFile[r] = NoFile

\* C25: a step that empties a non-empty buffer is a step of stop()'s flush,
\* or the flush of a batch that was posted to a configured webhook URL and
\* answered.
C25_BufferEmptiedOnlyByDelivery ==
  [][(messagesToSendViaWebhook # <<>> /\ messagesToSendViaWebhook' = <<>>) =>
       \/ config.hasUrl
       \/ \E i \in DOMAIN tasks : tasks[i].h = "stop" /\ Stepped(i)]_vars

\* C26: while no updatePlayerRoomPref call is in progress, the stored
\* preference list equals the list loaded from the preferences file; a call
\* whose write to the file failed has left the stored list unchanged.
C26_MemoryEqualsDisk ==
  (~\E i \in DOMAIN tasks : tasks[i].pc = "u_get") =>
    playerRoomPreferences = Load(prefsFile)

\* The handlers that are about to push their line.
AboutToPush(ts) == {ts[k] : k \in {j \in 1 .. Len(ts) : ts[j].pc = "w_msgs"}}

\* C27: a handler that starts to log a line has resolved the room that is
\* the author's stored preference; the line is tagged with that room in the
\* buffer and is written only to files that carry that room's tag; a room's
\* current file carries the room's tag.
C27_LineGoesToAuthorsRoom ==
  [][/\ \A t \in AboutToPush(tasks') \ AboutToPush(tasks) :
          \E k \in 1 .. Len(playerRoomPreferences') :
            /\ playerRoomPreferences'[k].playerId = t.player
            /\ playerRoomPreferences'[k].room = t.room
     /\ \A t \in AboutToPush(tasks) :
          /\ captured' \ captured \subseteq {[id |-> t.line, room |-> t.room]}
                 \cup {c \in captured' : c.id # t.line}
          /\ \A k \in 1 .. Len(messagesToSendViaWebhook') :
               messagesToSendViaWebhook'[k].id = t.line =>
                 messagesToSendViaWebhook'[k].room = t.room
          /\ \A n \in DOMAIN files' :
               t.line \in FileLines(files', n) => n.room = t.room
     /\ \A n \in DOMAIN files' : \A l \in FileLines(files', n) :
          [id |-> l, room |-> n.room] \in captured'
     /\ \A k \in 1 .. Len(messagesToSendViaWebhook') :
          [id |-> messagesToSendViaWebhook'[k].id,
           room |-> messagesToSendViaWebhook'[k].room] \in captured'
     /\ \A r \in Rooms : currentFile'[r] # NoFile => currentFile'[r].room = r]_vars

\* C27, its case: line 1 was captured for Space and line 2 for Fantasy, each
\* is in a file of its room, and both rooms have a current file.
C27_Witness ==
  /\ captured = {[id |-> 1, room |-> "space"], [id |-> 2, room |-> "fantasy"]}
  /\ \A r \in Rooms : currentFile[r] # NoFile /\ currentFile[r] \in DOMAIN files
  /\ 1 \in FileLines(files, currentFile["space"])
  /\ 2 \in FileLines(files, currentFile["fantasy"])
  /\ tasks = <<>>

\* C28: when the preference update made for a join or a /me line of player p
\* is stored, p has the preference Space if no preference was stored for p,
\* and p's stored preference is unchanged otherwise.
C28_DefaultSpaceElseUnchanged ==
  [][\A i \in DOMAIN tasks :
       LET t == tasks[i] IN
       (t.pc = "u_get" /\ t.ret \in {"j_after", "me_after"} /\ Stepped(i)) =>
         /\ HasPref(playerRoomPreferences', t.player)
         /\ PrefRoom(playerRoomPreferences', t.player) =
              IF HasPref(playerRoomPreferences, t.player)
                THEN PrefRoom(playerRoomPreferences, t.player)
                ELSE "space"]_vars

\* The entries of the players other than p, in list order.
OthersEntries(prefs, p) == SelectSeq(prefs, LAMBDA e : e.playerId # p)

\* C29: the step in which updatePlayerRoomPref(p, r) stores and writes its
\* list leaves the entries of every other player as they were, in memory and
\* on disk.
C29_UpdateChangesOnlyOwnEntry ==
  [][\A i \in DOMAIN tasks :
       LET t == tasks[i] IN
       (t.pc = "u_get" /\ Stepped(i)) =>
         /\ SeqSet(OthersEntries(playerRoomPreferences', t.player)) =
              SeqSet(OthersEntries(playerRoomPreferences, t.player))
         /\ SeqSet(OthersEntries(Load(prefsFile'), t.player)) =
              SeqSet(OthersEntries(Load(prefsFile), t.player))]_vars

\* C30: every player in the member list has a stored room preference.
C30_MembersHavePreference ==
  ~playersInRPChat.isNull =>
    \A p \in SeqSet(playersInRPChat.ids) : HasPref(playerRoomPreferences, p)

\* C31: the stored member list is a list of player ids, never null.
C31_MemberListNeverNull == ~playersInRPChat.isNull

====
